---- MODULE Spec2Model ----
(***************************************************************************)
(* A model of the dice roller of src/app/api/mcp/route.ts: parseNotation,  *)
(* rollTerm, applyAdvantage and the roll_dice handler.                     *)
(*                                                                         *)
(* A JavaScript string is a sequence of one-character strings, so that     *)
(* trimming, splitting, joining and the term regular expression work on    *)
(* characters as the code does.  An optional field (keep?, drop?) is a     *)
(* sequence of length 0 (absent) or 1 (present).                           *)
(***************************************************************************)
EXTENDS Integers, Sequences, FiniteSets, TLC

(***************************************************************************)
(* Bounds of the model.                                                    *)
(***************************************************************************)
\* the largest dice count written in a notation
MaxCount == 3
\* the largest keep/drop n written in a notation (above MaxCount: n > count)
MaxN == 4
\* the largest flat modifier written in a notation
MaxMod == 2
\* the largest number of signed runs in a notation
MaxTerms == 2
\* the largest number of trailing adv/dis tokens in a notation
MaxFlags == 2
\* Math.random() returns one of 0/RandDen, 1/RandDen, ..., (RandDen-1)/RandDen
RandDen == 4
\* the largest number of rollOnce calls one invocation may need
MaxDraws == 4

(***************************************************************************)
(* Characters and strings.                                                 *)
(***************************************************************************)
DigitChars == <<"0", "1", "2", "3", "4", "5", "6", "7", "8", "9">>

UpperChars == <<"A", "B", "C", "D", "E", "F", "G", "H", "I", "J", "K", "L", "M",
                "N", "O", "P", "Q", "R", "S", "T", "U", "V", "W", "X", "Y", "Z">>

LowerChars == <<"a", "b", "c", "d", "e", "f", "g", "h", "i", "j", "k", "l", "m",
                "n", "o", "p", "q", "r", "s", "t", "u", "v", "w", "x", "y", "z">>

\* the characters the regular expression class \s matches, among those used
WhiteSpace == {" ", "\t"}

IsDigit(c) == \E i \in 1..10 : DigitChars[i] = c

DigitVal(c) == (CHOOSE i \in 1..10 : DigitChars[i] = c) - 1

IsWs(c) == c \in WhiteSpace

\* s.slice(from) on a string, from counted from 1
StrFrom(s, from) == SubSeq(s, from, Len(s))

RECURSIVE Concat(_)
\* tokens.join('')
Concat(ss) == IF ss = <<>> THEN <<>> ELSE Head(ss) \o Concat(Tail(ss))

AllDigits(s) == \A i \in 1..Len(s) : IsDigit(s[i])

\* the length of the longest prefix of s made of digits
DigitRun(s) ==
  IF AllDigits(s) THEN Len(s)
  ELSE (CHOOSE i \in 1..Len(s) : ~IsDigit(s[i]) /\ AllDigits(SubSeq(s, 1, i - 1))) - 1

RECURSIVE ParseInt(_)
\* parseInt(s, 10) of a non-empty digit string
ParseInt(s) ==
  IF Len(s) = 0 THEN 0
  ELSE 10 * ParseInt(SubSeq(s, 1, Len(s) - 1)) + DigitVal(s[Len(s)])

\* String.prototype.trim
Trim(s) ==
  IF \A i \in 1..Len(s) : IsWs(s[i]) THEN <<>>
  ELSE LET first == CHOOSE i \in 1..Len(s) :
                      ~IsWs(s[i]) /\ \A j \in 1..(i - 1) : IsWs(s[j])
           last  == CHOOSE i \in 1..Len(s) :
                      ~IsWs(s[i]) /\ \A j \in (i + 1)..Len(s) : IsWs(s[j])
       IN  SubSeq(s, first, last)

LowerChar(c) ==
  IF \E i \in 1..26 : UpperChars[i] = c
  THEN LowerChars[CHOOSE i \in 1..26 : UpperChars[i] = c]
  ELSE c

\* String.prototype.toLowerCase
ToLowerCase(s) == [i \in 1..Len(s) |-> LowerChar(s[i])]

RECURSIVE SplitWs(_)
\* s.split(/\s+/): the pieces between maximal runs of white space
SplitWs(s) ==
  IF \A i \in 1..Len(s) : ~IsWs(s[i]) THEN <<s>>
  ELSE LET w   == CHOOSE i \in 1..Len(s) :
                    IsWs(s[i]) /\ \A j \in 1..(i - 1) : ~IsWs(s[j])
           rem == StrFrom(s, w)
           nxt == IF \A i \in 1..Len(rem) : IsWs(rem[i]) THEN Len(rem) + 1
                  ELSE CHOOSE i \in 1..Len(rem) :
                         ~IsWs(rem[i]) /\ \A j \in 1..(i - 1) : IsWs(rem[j])
       IN  <<SubSeq(s, 1, w - 1)>> \o SplitWs(StrFrom(rem, nxt))

ADV == <<"a", "d", "v">>
ADVANTAGE == <<"a", "d", "v", "a", "n", "t", "a", "g", "e">>
DIS == <<"d", "i", "s">>
DISADVANTAGE == <<"d", "i", "s", "a", "d", "v", "a", "n", "t", "a", "g", "e">>

IsAdvToken(t) == t = ADV \/ t = ADVANTAGE

IsDisToken(t) == t = DIS \/ t = DISADVANTAGE

RECURSIVE StripFlags(_, _, _)
\* the while loop of parseNotation: pops trailing adv/dis tokens
StripFlags(tokens, adv, dis) ==
  IF Len(tokens) = 0 THEN [tokens |-> tokens, adv |-> adv, dis |-> dis]
  ELSE LET last == tokens[Len(tokens)]
           popped == SubSeq(tokens, 1, Len(tokens) - 1)
       IN  IF IsAdvToken(last) THEN StripFlags(popped, TRUE, dis)
           ELSE IF IsDisToken(last) THEN StripFlags(popped, adv, TRUE)
           ELSE [tokens |-> tokens, adv |-> adv, dis |-> dis]

\* PrefixSign leaving an empty string empty
PrefixSignUnlessEmpty(joined) ==
  IF Len(joined) = 0 \/ joined[1] = "+" THEN joined ELSE <<"+">> \o joined

\* joined.replace(/^\+?/, '+'): a leading '+' is replaced by '+', and a '+'
\* is put in front of anything else
PrefixSign(joined) ==
  IF Len(joined) > 0 /\ joined[1] = "+" THEN joined ELSE <<"+">> \o joined

IsSign(c) == c = "+" \/ c = "-"

RECURSIVE SplitSigns(_)
\* s.split(/(?=[+-])/g): cuts before every sign character but the first
\* character of the string
SplitSigns(s) ==
  IF \A i \in 2..Len(s) : ~IsSign(s[i]) THEN <<s>>
  ELSE LET c == CHOOSE i \in 2..Len(s) :
                  IsSign(s[i]) /\ \A j \in 2..(i - 1) : ~IsSign(s[j])
       IN  <<SubSeq(s, 1, c - 1)>> \o SplitSigns(StrFrom(s, c))

\* .filter(Boolean) on an array of strings: the empty strings go
FilterNonEmpty(ss) == SelectSeq(ss, LAMBDA p : Len(p) > 0)

Selectors == {<<"k", "h">>, <<"k", "l">>, <<"d", "h">>, <<"d", "l">>}

NoMatch == [matched |-> FALSE, sign |-> "", isMod |-> FALSE, count |-> <<>>,
            sides |-> <<>>, kd |-> <<>>, n |-> <<>>, mod |-> <<>>]

\* part.match(termRe): the named groups; a group that did not take part is <<>>
MatchTerm(part) ==
  IF Len(part) = 0 \/ ~IsSign(part[1]) THEN NoMatch
  ELSE
    LET body == StrFrom(part, 2)
        c    == DigitRun(body)
        aft  == StrFrom(body, c + 1)
    IN  IF Len(aft) = 0
        THEN IF c >= 1
             THEN [NoMatch EXCEPT !.matched = TRUE, !.sign = part[1],
                                  !.isMod = TRUE, !.mod = body]
             ELSE NoMatch
        ELSE IF aft[1] # "d" THEN NoMatch
        ELSE
          LET rest == StrFrom(aft, 2)
              s    == DigitRun(rest)
              sel  == StrFrom(rest, s + 1)
              dice == [NoMatch EXCEPT !.matched = TRUE, !.sign = part[1],
                                      !.count = SubSeq(body, 1, c),
                                      !.sides = SubSeq(rest, 1, s)]
          IN  IF s = 0 THEN NoMatch
              ELSE IF Len(sel) = 0 THEN dice
              ELSE IF Len(sel) >= 3 /\ SubSeq(sel, 1, 2) \in Selectors
                      /\ AllDigits(StrFrom(sel, 3))
                   THEN [dice EXCEPT !.kd = SubSeq(sel, 1, 2), !.n = StrFrom(sel, 3)]
                   ELSE NoMatch

(***************************************************************************)
(* parseNotation.                                                          *)
(***************************************************************************)
\* 'modifier' in t
IsModifier(t) == "modifier" \in DOMAIN t

\* a JavaScript string is truthy when it is not empty
TruthyStr(s) == Len(s) > 0

\* lines 46-55: the DiceTerm of a matched dice run
MakeDiceTerm(m) ==
  LET count == IF TruthyStr(m.count) THEN ParseInt(m.count) ELSE 1
      sides == ParseInt(m.sides)
      hasKd == TruthyStr(m.kd)
      n     == IF TruthyStr(m.n) THEN ParseInt(m.n) ELSE 0
      \* kd && n: n is falsy when undefined and when 0
      sel   == hasKd /\ TruthyStr(m.n) /\ n # 0
      isKeep == m.kd = <<"k", "h">> \/ m.kd = <<"k", "l">>
  IN  [count |-> IF count # 0 THEN count ELSE 1,
       sides |-> sides,
       keep  |-> IF sel /\ isKeep THEN <<[kind |-> m.kd, n |-> n]>> ELSE <<>>,
       drop  |-> IF sel /\ ~isKeep THEN <<[kind |-> m.kd, n |-> n]>> ELSE <<>>]

\* what a throw of parseNotation leaves: no expression
Thrown(kind, part) ==
  [ok |-> FALSE, error |-> kind, part |-> part, terms |-> <<>>,
   advantage |-> FALSE, disadvantage |-> FALSE]

RECURSIVE ParseParts(_, _)
\* the for loop of parseNotation over the parts, from the terms pushed so far
ParseParts(parts, terms) ==
  IF parts = <<>>
  THEN [ok |-> TRUE, error |-> "", part |-> <<>>, terms |-> terms,
        advantage |-> FALSE, disadvantage |-> FALSE]
  ELSE
    LET part == Head(parts)
        m    == MatchTerm(part)
        sign == IF m.sign = "-" THEN -1 ELSE 1
    IN  IF ~m.matched THEN Thrown("invalid", part)
        ELSE IF TruthyStr(m.mod)
             THEN ParseParts(Tail(parts),
                             Append(terms, [modifier |-> sign * ParseInt(m.mod)]))
        ELSE IF sign = -1 THEN Thrown("negative", part)
        ELSE ParseParts(Tail(parts), Append(terms, MakeDiceTerm(m)))

\* SetFlags without the throw of line 58
SetFlagsNoConflictCheck(expr, adv, dis) ==
  IF ~expr.ok THEN expr
  ELSE [expr EXCEPT !.advantage = adv, !.disadvantage = dis]

\* lines 58-61: the flags of the expression, or the throw when both were seen
SetFlags(expr, adv, dis) ==
  IF ~expr.ok THEN expr
  ELSE IF adv /\ dis THEN Thrown("both", <<>>)
  ELSE [expr EXCEPT !.advantage = adv, !.disadvantage = dis]

\* parseNotation(notation): the expression, or the error thrown.  The optional
\* flags advantage? and disadvantage? are only ever set to true and only ever
\* tested for truth, so an absent flag is FALSE.
ParseNotation(notation) ==
  LET tokens   == SplitWs(ToLowerCase(Trim(notation)))
      stripped == StripFlags(tokens, FALSE, FALSE)
      joined   == Concat(stripped.tokens)
      parts    == FilterNonEmpty(SplitSigns(PrefixSign(joined)))
  IN  SetFlags(ParseParts(parts, <<>>), stripped.adv, stripped.dis)

(***************************************************************************)
(* The random source, rollTerm and applyAdvantage.  A draw of Math.random  *)
(* is the numerator r of r/RandDen, 0 <= r < RandDen.                      *)
(***************************************************************************)
Randoms == 0..(RandDen - 1)

\* rollOnce(sides) when Math.random() returns r/RandDen
RollOnce(sides, r) == 1 + ((r * sides) \div RandDen)

Min2(a, b) == IF a <= b THEN a ELSE b

Max2(a, b) == IF a >= b THEN a ELSE b

\* arr.slice(start, end) of JavaScript, on an array held as a sequence
Slice(arr, start, end) ==
  LET len  == Len(arr)
      from == IF start < 0 THEN Max2(len + start, 0) ELSE Min2(start, len)
      to   == IF end < 0 THEN Max2(len + end, 0) ELSE Min2(end, len)
  IN  SubSeq(arr, from + 1, to)

\* sorted with x put after every element that does not compare above it
SortInsert(sorted, x, cmp) ==
  LET p == IF \A k \in 1..Len(sorted) : cmp[sorted[k], x] <= 0
           THEN Len(sorted) + 1
           ELSE CHOOSE k \in 1..Len(sorted) :
                  cmp[sorted[k], x] > 0 /\ \A j \in 1..(k - 1) : cmp[sorted[j], x] <= 0
  IN  SubSeq(sorted, 1, p - 1) \o <<x>> \o SubSeq(sorted, p, Len(sorted))

RECURSIVE SortJs(_, _)
\* arr.sort(cmp): Array.prototype.sort is stable; cmp[a, b] is the comparator
SortJs(arr, cmp) ==
  IF arr = <<>> THEN <<>>
  ELSE SortInsert(SortJs(SubSeq(arr, 1, Len(arr) - 1), cmp), arr[Len(arr)], cmp)

RECURSIVE SumAt(_, _)
\* used.reduce((acc, i) => acc + rolls[i].value, 0)
SumAt(used, rolls) ==
  IF used = <<>> THEN 0 ELSE rolls[Head(used) + 1] + SumAt(Tail(used), rolls)

\* line 67: the indices by value descending
SortedIdx(rolls) ==
  LET idx == 0..(Len(rolls) - 1)
  IN  SortJs([k \in 1..Len(rolls) |-> k - 1],
             [a \in idx, b \in idx |-> rolls[b + 1] - rolls[a + 1]])

\* KeepIndices with the kept indices put back in draw order for kh too
KeepIndicesDrawOrder(keep, sortedIdx) ==
  LET idx == 0..(Len(sortedIdx) - 1)
      asc == [a \in idx, b \in idx |-> a - b]
  IN  IF keep.kind = <<"k", "h">> THEN SortJs(Slice(sortedIdx, 0, keep.n), asc)
      ELSE SortJs(Slice(sortedIdx, -keep.n, Len(sortedIdx)), asc)

\* lines 68-71: the indices a keep selector leaves
KeepIndices(keep, sortedIdx) ==
  LET idx == 0..(Len(sortedIdx) - 1)
  IN  IF keep.kind = <<"k", "h">> THEN Slice(sortedIdx, 0, keep.n)
      ELSE SortJs(Slice(sortedIdx, -keep.n, Len(sortedIdx)),
                  [a \in idx, b \in idx |-> a - b])

\* DropIndices with dh and dl taking each other's end of the ranking
DropIndicesSwapped(drop, indices, sortedIdx) ==
  LET toDrop == IF drop.kind = <<"d", "l">> THEN Slice(sortedIdx, 0, drop.n)
                ELSE Slice(sortedIdx, -drop.n, Len(sortedIdx))
      set    == {toDrop[k] : k \in 1..Len(toDrop)}
  IN  SelectSeq(indices, LAMBDA x : x \notin set)

\* lines 72-76: the indices a drop selector leaves
DropIndices(drop, indices, sortedIdx) ==
  LET toDrop == IF drop.kind = <<"d", "h">> THEN Slice(sortedIdx, 0, drop.n)
                ELSE Slice(sortedIdx, -drop.n, Len(sortedIdx))
      set    == {toDrop[k] : k \in 1..Len(toDrop)}
  IN  SelectSeq(indices, LAMBDA x : x \notin set)

\* rollTerm(term) when the draws of Math.random are rs[1], ..., rs[count].
\* Indices are those of the code, counted from 0.
RollTerm(term, rs) ==
  LET rolls     == [k \in 1..term.count |-> RollOnce(term.sides, rs[k])]
      all       == [k \in 1..term.count |-> k - 1]
      sortedIdx == SortedIdx(rolls)
      kept      == IF term.keep # <<>> THEN KeepIndices(term.keep[1], sortedIdx)
                   ELSE all
      used      == IF term.drop # <<>> THEN DropIndices(term.drop[1], kept, sortedIdx)
                   ELSE kept
  IN  [rolls |-> rolls, used |-> used, subtotal |-> SumAt(used, rolls)]

\* applyAdvantage(base, sides, adv, dis) when its two draws, if it makes
\* them, are ra and rb; detail is <<>> when absent, and drew lists the values
\* rollOnce returned
ApplyAdvantage(base, sides, adv, dis, ra, rb) ==
  LET a == RollOnce(20, ra)
      b == RollOnce(20, rb)
  IN  IF sides # 20 \/ (~adv /\ ~dis)
      THEN [value |-> base, detail |-> <<>>, drew |-> <<>>]
      ELSE IF adv
      THEN [value |-> Max2(a, b), detail |-> <<"adv", a, b>>, drew |-> <<a, b>>]
      ELSE [value |-> Min2(a, b), detail |-> <<"dis", a, b>>, drew |-> <<a, b>>]

\* TakesAdvantagePath without the test for keep and drop
TakesAdvantagePathIgnoresSelector(t, expr) ==
  /\ t.count = 1
  /\ t.sides = 20
  /\ (expr.advantage \/ expr.disadvantage)

\* line 112: the test that sends a dice term to the advantage path
TakesAdvantagePath(t, expr) ==
  /\ t.count = 1
  /\ t.sides = 20
  /\ (expr.advantage \/ expr.disadvantage)
  /\ t.keep = <<>>
  /\ t.drop = <<>>

RECURSIVE DrawsNeeded(_, _)
\* the number of rollOnce calls the handler makes for the terms of expr
DrawsNeeded(terms, expr) ==
  IF terms = <<>> THEN 0
  ELSE LET t == Head(terms)
       IN  (IF IsModifier(t) THEN 0
            ELSE IF TakesAdvantagePath(t, expr) THEN 3
            ELSE t.count) + DrawsNeeded(Tail(terms), expr)

(***************************************************************************)
(* The notations the handler is called with.  A notation is written from a *)
(* shape: signed runs, each a separator and an atom, then trailing tokens. *)
(***************************************************************************)
RECURSIVE Str(_)
\* the decimal digits of a natural number
Str(k) == IF k < 10 THEN <<DigitChars[k + 1]>>
          ELSE Str(k \div 10) \o <<DigitChars[(k % 10) + 1]>>

RECURSIVE SeqsUpTo(_, _)
\* the sequences over S of length at most k
SeqsUpTo(S, k) ==
  IF k = 0 THEN {<<>>}
  ELSE LET shorter == SeqsUpTo(S, k - 1)
       IN  shorter \cup {Append(q, x) : q \in {r \in shorter : Len(r) = k - 1}, x \in S}

CountStrs == {<<>>} \cup {Str(k) : k \in 0..MaxCount}

SidesStrs == {<<>>, <<"0">>, <<"2">>, <<"2", "0">>}

NStrs == {<<>>} \cup {Str(k) : k \in 0..MaxN}

Atom(kind, count, sides, kd, n, mod) ==
  [kind |-> kind, count |-> count, sides |-> sides, kd |-> kd, n |-> n, mod |-> mod]

EmptyAtom == Atom("empty", <<>>, <<>>, <<>>, <<>>, <<>>)

\* white space where a term would be
BlankAtom == Atom("blank", <<>>, <<>>, <<>>, <<>>, <<" ">>)

ModAtom(k) == Atom("mod", <<>>, <<>>, <<>>, <<>>, Str(k))

DiceAtoms ==
  {Atom("dice", c, sd, <<>>, <<>>, <<>>) : c \in CountStrs, sd \in SidesStrs}
  \cup {Atom("dice", c, sd, kd, n, <<>>) :
          c \in CountStrs, sd \in SidesStrs, kd \in Selectors, n \in NStrs}

LiteAtoms ==
  {EmptyAtom, ModAtom(0), ModAtom(MaxMod),
   Atom("dice", <<"1">>, <<"2", "0">>, <<>>, <<>>, <<>>),
   Atom("dice", <<"1">>, <<>>, <<>>, <<>>, <<>>),
   Atom("dice", <<"2">>, <<"2">>, <<"k", "h">>, <<"1">>, <<>>)}

UpperChar(c) ==
  IF \E i \in 1..26 : LowerChars[i] = c
  THEN UpperChars[CHOOSE i \in 1..26 : LowerChars[i] = c]
  ELSE c

\* a dice atom is written in lower case ("dice") or in upper case ("DICE")
AtomText(a) ==
  LET text == a.count \o <<"d">> \o a.sides \o a.kd \o a.n
  IN  IF a.kind = "dice" THEN text
      ELSE IF a.kind = "DICE" THEN [i \in 1..Len(text) |-> UpperChar(text[i])]
      ELSE a.mod

IsDiceAtom(a) == a.kind \in {"dice", "DICE"}

\* a dice atom the grammar accepts: sides written, a selector with its digits
WellFormedDice(a) ==
  IsDiceAtom(a) /\ a.sides # <<>> /\ (a.kd = <<>> \/ a.n # <<>>)

Leads == {<<>>, <<"+">>, <<"-">>}

Seps == {<<"+">>, <<"-">>, <<" ", "+", " ">>}

FlagTokens == {ADV, ADVANTAGE, DIS, DISADVANTAGE, <<"A", "D", "V">>}

Run(sep, atom) == [sep |-> sep, atom |-> atom]

\* one run with every dice atom, alone or under one flag
ResolutionShapes ==
  {[runs |-> <<Run(<<>>, a)>>, flags |-> f] :
     a \in DiceAtoms, f \in {<<>>, <<ADV>>, <<DIS>>}}

RECURSIVE RunSeqs(_)
\* the run sequences of length 1..k: a lead, then separated atoms
RunSeqs(k) ==
  IF k = 1 THEN {<<Run(l, a)>> : l \in Leads, a \in LiteAtoms}
  ELSE LET shorter == RunSeqs(k - 1)
       IN  shorter \cup
           {Append(q, Run(sp, a)) :
              q \in {r \in shorter : Len(r) = k - 1}, sp \in Seps, a \in LiteAtoms}

\* several runs, signs and separators of every kind
GrammarShapes ==
  {[runs |-> rs, flags |-> f] : rs \in RunSeqs(MaxTerms), f \in {<<>>, <<ADV>>}}

\* up to MaxFlags trailing tokens after nothing, a d20 or a modifier
FlagShapes ==
  {[runs |-> <<Run(<<>>, a)>>, flags |-> f] :
     a \in {EmptyAtom, BlankAtom, ModAtom(MaxMod),
            Atom("dice", <<"1">>, <<"2", "0">>, <<>>, <<>>, <<>>),
            Atom("DICE", <<"1">>, <<"2", "0">>, <<>>, <<>>, <<>>)},
     f \in SeqsUpTo(FlagTokens, MaxFlags)}

Shapes == ResolutionShapes \cup GrammarShapes \cup FlagShapes

RECURSIVE RenderRuns(_)
RenderRuns(rs) ==
  IF rs = <<>> THEN <<>>
  ELSE Head(rs).sep \o AtomText(Head(rs).atom) \o RenderRuns(Tail(rs))

RECURSIVE RenderFlags(_)
RenderFlags(fs) ==
  IF fs = <<>> THEN <<>> ELSE <<" ">> \o Head(fs) \o RenderFlags(Tail(fs))

\* the notation a shape writes
Render(sh) == RenderRuns(sh.runs) \o RenderFlags(sh.flags)

\* InputSchema: the notation is a string of at least one character; and the
\* invocation draws at most MaxDraws dice
Admissible(s) ==
  /\ Len(s) >= 1
  /\ LET e == ParseNotation(s) IN DrawsNeeded(e.terms, e) <= MaxDraws

(***************************************************************************)
(* The roll_dice handler, one invocation.                                  *)
(***************************************************************************)
VARIABLES
  shape,     \* how the notation was written (not read by the program)
  notation,  \* the argument of the handler
  pc,        \* "start", "loop", "done" (returned) or "error" (threw)
  parsed,    \* the result of parseNotation
  pos,       \* the place of the for loop in parsed.terms, from 1
  total,     \* the local total
  details,   \* the local details
  drawn,     \* per detail, the values rollOnce returned for it, in call order
  response   \* structuredContent once returned, the error once thrown

vars == <<shape, notation, pc, parsed, pos, total, details, drawn, response>>

NotParsed == Thrown("", <<>>)

Pending == [status |-> "pending"]

Init ==
  /\ shape \in {sh \in Shapes : Admissible(Render(sh))}
  /\ notation = Render(shape)
  /\ pc = "start"
  /\ parsed = NotParsed
  /\ pos = 0
  /\ total = 0
  /\ details = <<>>
  /\ drawn = <<>>
  /\ response = Pending

\* line 102, parseNotation returns: the loop starts
Parse ==
  /\ pc = "start"
  /\ ParseNotation(notation).ok
  /\ parsed' = ParseNotation(notation)
  /\ pc' = "loop"
  /\ pos' = 1
  /\ UNCHANGED <<shape, notation, total, details, drawn, response>>

\* line 102, parseNotation throws: the handler throws with it
ParseThrows ==
  /\ pc = "start"
  /\ ~ParseNotation(notation).ok
  /\ parsed' = ParseNotation(notation)
  /\ pc' = "error"
  /\ response' = [status |-> "error", error |-> parsed'.error, part |-> parsed'.part]
  /\ UNCHANGED <<shape, notation, pos, total, details, drawn>>

\* lines 107-111: a modifier term
ModifierTerm ==
  /\ pc = "loop"
  /\ pos <= Len(parsed.terms)
  /\ LET t == parsed.terms[pos]
     IN  /\ IsModifier(t)
         /\ total' = total + t.modifier
         /\ details' = Append(details, [type |-> "modifier", value |-> t.modifier])
         /\ drawn' = Append(drawn, <<>>)
  /\ pos' = pos + 1
  /\ UNCHANGED <<shape, notation, pc, parsed, response>>

\* the d20 detail of lines 113-116 for the draws r0 (base), ra and rb
AdvantageDetail(expr, r0, ra, rb) ==
  LET base == RollOnce(20, r0)
      advd == ApplyAdvantage(base, 20, expr.advantage, expr.disadvantage, ra, rb)
  IN  [type |-> "d20", base |-> base, advOrDis |-> advd.detail, final |-> advd.value,
       drew |-> <<base>> \o advd.drew]

\* AdvantageTerm adding the base draw to the total instead of advd.value
AdvantageTermAddsBase ==
  /\ pc = "loop"
  /\ pos <= Len(parsed.terms)
  /\ LET t == parsed.terms[pos]
     IN  /\ ~IsModifier(t)
         /\ TakesAdvantagePath(t, parsed)
         /\ \E r0 \in Randoms, ra \in Randoms, rb \in Randoms :
              LET d == AdvantageDetail(parsed, r0, ra, rb)
              IN  /\ total' = total + d.base
                  /\ details' = Append(details,
                                  [type |-> "d20", base |-> d.base,
                                   advOrDis |-> d.advOrDis, final |-> d.final])
                  /\ drawn' = Append(drawn, d.drew)
  /\ pos' = pos + 1
  /\ UNCHANGED <<shape, notation, pc, parsed, response>>

\* lines 112-118: a single d20 under advantage or disadvantage
AdvantageTerm ==
  /\ pc = "loop"
  /\ pos <= Len(parsed.terms)
  /\ LET t == parsed.terms[pos]
     IN  /\ ~IsModifier(t)
         /\ TakesAdvantagePath(t, parsed)
         /\ \E r0 \in Randoms, ra \in Randoms, rb \in Randoms :
              LET d == AdvantageDetail(parsed, r0, ra, rb)
              IN  /\ total' = total + d.final
                  /\ details' = Append(details,
                                  [type |-> "d20", base |-> d.base,
                                   advOrDis |-> d.advOrDis, final |-> d.final])
                  /\ drawn' = Append(drawn, d.drew)
  /\ pos' = pos + 1
  /\ UNCHANGED <<shape, notation, pc, parsed, response>>

\* the dice detail of lines 119-130 for the draws rs
DiceDetail(t, rs) ==
  LET r == RollTerm(t, rs)
  IN  [type |-> "dice", sides |-> t.sides, count |-> t.count, keep |-> t.keep,
       drop |-> t.drop, rolls |-> r.rolls, usedIndices |-> r.used,
       subtotal |-> r.subtotal]

\* lines 119-130: any other dice term
DiceTerm ==
  /\ pc = "loop"
  /\ pos <= Len(parsed.terms)
  /\ LET t == parsed.terms[pos]
     IN  /\ ~IsModifier(t)
         /\ ~TakesAdvantagePath(t, parsed)
         /\ \E rs \in [1..t.count -> Randoms] :
              LET d == DiceDetail(t, rs)
              IN  /\ total' = total + d.subtotal
                  /\ details' = Append(details, d)
                  /\ drawn' = Append(drawn, d.rolls)
  /\ pos' = pos + 1
  /\ UNCHANGED <<shape, notation, pc, parsed, response>>

\* lines 133-141: the loop is over, the handler returns
Return ==
  /\ pc = "loop"
  /\ pos > Len(parsed.terms)
  /\ pc' = "done"
  /\ response' = [status |-> "ok", notation |-> notation, total |-> total,
                  details |-> details]
  /\ UNCHANGED <<shape, notation, parsed, pos, total, details, drawn>>

Next ==
  \/ Parse
  \/ ParseThrows
  \/ ModifierTerm
  \/ AdvantageTerm
  \/ DiceTerm
  \/ Return

Spec == Init /\ [][Next]_vars

(***************************************************************************)
(* Properties.                                                             *)
(***************************************************************************)
\* what a detail record adds to the total
Contribution(d) ==
  IF d.type = "modifier" THEN d.value
  ELSE IF d.type = "dice" THEN d.subtotal
  ELSE d.final

RECURSIVE SumContributions(_)
SumContributions(ds) ==
  IF ds = <<>> THEN 0 ELSE Contribution(Head(ds)) + SumContributions(Tail(ds))

\* C1: the total the handler returns is the sum of the contributions of the
\* records of its details list (value, subtotal or final), the running total
\* is that sum all along the loop, and the returned list has one record per
\* parsed term.
C1_TotalIsSumOfDetails ==
  /\ pc \in {"loop", "done"} => total = SumContributions(details)
  /\ pc = "done" =>
       /\ response.total = SumContributions(response.details)
       /\ Len(response.details) = Len(parsed.terms)

\* a returned roll of a d20 under advantage plus a non-zero modifier, where
\* the base draw differs from the value that counted
C1_Witness ==
  /\ pc = "done"
  /\ Len(response.details) = 2
  /\ response.details[1].type = "d20"
  /\ response.details[1].base # response.details[1].final
  /\ response.details[2].type = "modifier"
  /\ response.details[2].value # 0

\* the sum of the values at the indices (from 0) listed in used
RECURSIVE SumOfUsed(_, _)
SumOfUsed(used, values) ==
  IF used = <<>> THEN 0
  ELSE values[used[1] + 1] + SumOfUsed(SubSeq(used, 2, Len(used)), values)

\* what the term of detail k adds to the total, from the values drawn for it
DrawnContribution(k) ==
  LET d == details[k]
      w == drawn[k]
  IN  IF d.type = "modifier" THEN parsed.terms[k].modifier
      ELSE IF d.type = "d20"
           THEN IF parsed.advantage THEN Max2(w[2], w[3]) ELSE Min2(w[2], w[3])
      ELSE SumOfUsed(d.usedIndices, w)

RECURSIVE SumDrawn(_)
SumDrawn(k) == IF k = 0 THEN 0 ELSE SumDrawn(k - 1) + DrawnContribution(k)

\* C2: a dice term takes the advantage path exactly when count = 1, sides =
\* 20, it has neither keep nor drop and a flag is set; on that path three
\* draws are made (base, a, b) and the term adds max(a, b) under advantage,
\* min(a, b) under disadvantage, whatever the base; every other dice term
\* draws count dice and adds the sum of its selected dice.
C2_AdvantagePathExactlyWhenEligible ==
  pc \in {"loop", "done"} =>
    /\ Len(details) = Len(drawn)
    /\ \A k \in 1..Len(details) :
         LET t == parsed.terms[k]
             d == details[k]
             w == drawn[k]
         IN  /\ IsModifier(t) <=> d.type = "modifier"
             /\ d.type = "d20" <=>
                  /\ ~IsModifier(t)
                  /\ t.count = 1 /\ t.sides = 20
                  /\ t.keep = <<>> /\ t.drop = <<>>
                  /\ (parsed.advantage \/ parsed.disadvantage)
             /\ d.type = "d20" =>
                  /\ Len(w) = 3
                  /\ d.base = w[1]
                  /\ d.advOrDis = <<IF parsed.advantage THEN "adv" ELSE "dis", w[2], w[3]>>
                  /\ d.final = IF parsed.advantage THEN Max2(w[2], w[3])
                               ELSE Min2(w[2], w[3])
             /\ d.type = "dice" =>
                  /\ Len(w) = t.count
                  /\ d.rolls = w
                  /\ d.subtotal = SumOfUsed(d.usedIndices, w)
    /\ total = SumDrawn(Len(details))

\* a returned 1d20 under disadvantage whose base draw is below both a and b
C2_Witness ==
  /\ pc = "done"
  /\ parsed.disadvantage
  /\ Len(details) = 1
  /\ details[1].type = "d20"
  /\ drawn[1][1] < Min2(drawn[1][2], drawn[1][3])
  /\ drawn[1][2] # drawn[1][3]
  /\ total = Min2(drawn[1][2], drawn[1][3])

\* index j comes before index i in the ranking by value descending, ties by
\* earlier draw position (indices from 0)
RankedBefore(rolls, j, i) ==
  rolls[j + 1] > rolls[i + 1] \/ (rolls[j + 1] = rolls[i + 1] /\ j < i)

\* the place of index i in that ranking, from 0
RankOf(rolls, i) ==
  Cardinality({j \in 0..(Len(rolls) - 1) : RankedBefore(rolls, j, i)})

\* the index at place p of that ranking
IndexAtRank(rolls, p) ==
  CHOOSE i \in 0..(Len(rolls) - 1) : RankOf(rolls, i) = p

IsAscending(q) == \A a, b \in 1..Len(q) : a < b => q[a] < q[b]

SetOf(q) == {q[k] : k \in 1..Len(q)}

\* C3: for a dice term with keep n, count dice are drawn and kept in draw
\* order; kh uses the first min(n, count) indices of the ranking (value
\* descending, ties to the earlier draw) in ranked order, kl the last
\* min(n, count) indices of it in ascending index order; the subtotal is the
\* sum of the values at the used indices.
C3_KeepSelectsByStableRanking ==
  pc \in {"loop", "done"} =>
    \A k \in 1..Len(details) :
      (details[k].type = "dice" /\ details[k].keep # <<>>) =>
        LET d     == details[k]
            count == parsed.terms[k].count
            n     == d.keep[1].n
            m     == Min2(n, count)
        IN  /\ Len(d.rolls) = count
            /\ d.rolls = drawn[k]
            /\ d.keep[1].kind = <<"k", "h">> =>
                 d.usedIndices = [p \in 1..m |-> IndexAtRank(d.rolls, p - 1)]
            /\ d.keep[1].kind = <<"k", "l">> =>
                 /\ SetOf(d.usedIndices) =
                      {i \in 0..(count - 1) : RankOf(d.rolls, i) >= count - m}
                 /\ Len(d.usedIndices) = m
                 /\ IsAscending(d.usedIndices)
            /\ d.subtotal = SumOfUsed(d.usedIndices, d.rolls)

\* a kh term whose used indices are out of draw order and whose cut falls
\* between two dice of equal value
C3_Witness ==
  /\ pc = "done"
  /\ Len(details) = 1
  /\ details[1].type = "dice"
  /\ details[1].keep # <<>>
  /\ details[1].keep[1].kind = <<"k", "h">>
  /\ ~IsAscending(details[1].usedIndices)
  /\ \E i \in SetOf(details[1].usedIndices) :
       \E j \in (0..(Len(details[1].rolls) - 1)) \ SetOf(details[1].usedIndices) :
         details[1].rolls[i + 1] = details[1].rolls[j + 1]

\* C4: for a dice term with drop n, the used indices are all indices but the
\* top n (dh) or bottom n (dl) of the ranking, in ascending draw order; when
\* n >= count nothing is used and the subtotal is 0; for 2d20dl1 one index is
\* used and its value is the larger of the two rolls.
C4_DropRemovesByStableRanking ==
  pc \in {"loop", "done"} =>
    \A k \in 1..Len(details) :
      (details[k].type = "dice" /\ details[k].drop # <<>>) =>
        LET d     == details[k]
            count == parsed.terms[k].count
            n     == d.drop[1].n
        IN  /\ Len(d.rolls) = count
            /\ d.drop[1].kind = <<"d", "h">> =>
                 SetOf(d.usedIndices) =
                   {i \in 0..(count - 1) : RankOf(d.rolls, i) >= n}
            /\ d.drop[1].kind = <<"d", "l">> =>
                 SetOf(d.usedIndices) =
                   {i \in 0..(count - 1) : RankOf(d.rolls, i) < count - n}
            /\ IsAscending(d.usedIndices)
            /\ d.subtotal = SumOfUsed(d.usedIndices, d.rolls)
            /\ n >= count => (d.usedIndices = <<>> /\ d.subtotal = 0)
            /\ (count = 2 /\ d.sides = 20 /\ d.drop[1] = [kind |-> <<"d", "l">>, n |-> 1]) =>
                 /\ Len(d.usedIndices) = 1
                 /\ d.subtotal = Max2(d.rolls[1], d.rolls[2])

\* a returned 2d20dl1 whose second roll is the higher one
C4_Witness ==
  /\ pc = "done"
  /\ notation = <<"2", "d", "2", "0", "d", "l", "1">>
  /\ details[1].rolls[1] < details[1].rolls[2]
  /\ details[1].usedIndices = <<1>>
  /\ total = details[1].rolls[2]

\* the sign a run is written with: '-' when its separator holds one
SignOf(sep) == IF \E i \in 1..Len(sep) : sep[i] = "-" THEN "-" ELSE "+"

\* a run the grammar accepts as written: a flat modifier of either sign, or a
\* well-formed dice term that is not written with '-'
AcceptedRun(r) ==
  r.atom.kind = "mod" \/ (WellFormedDice(r.atom) /\ SignOf(r.sep) = "+")

HasAdvFlag == \E i \in 1..Len(shape.flags) :
                shape.flags[i] \in {ADV, ADVANTAGE, <<"A", "D", "V">>}

HasDisFlag == \E i \in 1..Len(shape.flags) : shape.flags[i] \in {DIS, DISADVANTAGE}

\* C5: a dice term written with a leading '-', first run or later, is
\* rejected with the negative-dice-pool error, not the invalid-term error;
\* nothing is returned and no die is drawn.
C5_NegativeDiceGetsOwnError ==
  \A k \in 1..Len(shape.runs) :
    ( /\ WellFormedDice(shape.runs[k].atom)
      /\ SignOf(shape.runs[k].sep) = "-"
      /\ \A j \in 1..(k - 1) : AcceptedRun(shape.runs[j]) )
    => (pc # "start" =>
          /\ pc = "error"
          /\ response.error = "negative"
          /\ details = <<>> /\ drawn = <<>>)

\* C6: a notation that begins with '+' or '-' gets no sign prefix: with a flat
\* modifier first and accepted runs after it, it parses, the first term is
\* that signed modifier and the other terms follow in order.
C6_LeadingSignKept ==
  LET r == shape.runs
  IN  ( /\ r[1].sep \in {<<"+">>, <<"-">>}
        /\ r[1].atom.kind = "mod"
        /\ \A j \in 2..Len(r) : AcceptedRun(r[j])
        /\ ~(HasAdvFlag /\ HasDisFlag) )
      => (pc # "start" =>
            /\ parsed.ok
            /\ Len(parsed.terms) = Len(r)
            /\ parsed.terms[1] =
                 [modifier |-> (IF r[1].sep = <<"-">> THEN -1 ELSE 1)
                               * ParseInt(r[1].atom.mod)])

\* C7: every die value recorded for a dice term lies in 1..sides, the term
\* having count >= 1 and sides >= 1.
C7_DieValuesWithinSides ==
  pc \in {"loop", "done"} =>
    \A k \in 1..Len(details) :
      details[k].type = "dice" =>
        /\ details[k].count >= 1
        /\ details[k].sides >= 1
        /\ \A p \in 1..Len(details[k].rolls) :
             1 <= details[k].rolls[p] /\ details[k].rolls[p] <= details[k].sides

\* C8: parseNotation fails whenever the trailing tokens hold both an adv and
\* a dis word; an expression it returns has advantage set exactly when an adv
\* word was stripped, disadvantage exactly when a dis word was, never both.
C8_ConflictingFlagsRejected ==
  pc # "start" =>
    /\ (HasAdvFlag /\ HasDisFlag) =>
         (~parsed.ok /\ pc = "error" /\ details = <<>>)
    /\ parsed.ok =>
         /\ parsed.advantage = HasAdvFlag
         /\ parsed.disadvantage = HasDisFlag
         /\ ~(parsed.advantage /\ parsed.disadvantage)

\* a valid 1d20 followed by "dis ADV": thrown for the conflict itself
C8_Witness ==
  /\ pc = "error"
  /\ response.error = "both"
  /\ notation = <<"1", "d", "2", "0", " ", "d", "i", "s", " ", "A", "D", "V">>

\* C9: parseNotation never returns an empty term list: a notation with no
\* dice or modifier term (only adv/dis tokens, only white space) is rejected
\* as an invalid term, and the handler never returns zero details.
C9_NoEmptyTermList ==
  /\ parsed.ok => Len(parsed.terms) >= 1
  /\ pc = "done" => Len(response.details) >= 1
  /\ (\A k \in 1..Len(shape.runs) : shape.runs[k].atom.kind \in {"empty", "blank"})
       => (pc # "start" => (pc = "error" /\ response.error = "invalid"))

\* the notation " adv": no term at all, rejected
C9_Witness ==
  /\ pc = "error"
  /\ notation = <<" ", "a", "d", "v">>
  /\ response.error = "invalid"
  /\ response.part = <<"+">>

\* C10: a dice run written with a selector and digits n gives a term with
\* keep = (kind, n) for kh/kl and drop = (kind, n) for dh/dl, never both and
\* never neither, for every n including 0; so such a term is resolved as a
\* general dice term, not on the advantage path.
C10_SelectorAlwaysPopulates ==
  (parsed.ok /\ Len(parsed.terms) = Len(shape.runs)) =>
    \A k \in 1..Len(shape.runs) :
      LET a == shape.runs[k].atom
          t == parsed.terms[k]
          sel == <<[kind |-> a.kd, n |-> ParseInt(a.n)]>>
      IN  (WellFormedDice(a) /\ a.kd # <<>>) =>
            /\ a.kd \in {<<"k", "h">>, <<"k", "l">>} => (t.keep = sel /\ t.drop = <<>>)
            /\ a.kd \in {<<"d", "h">>, <<"d", "l">>} => (t.drop = sel /\ t.keep = <<>>)
            /\ k <= Len(details) => details[k].type = "dice"

====
